---- MODULE Spec2Model ----
(***************************************************************************)
(* placeli: the import / duplicate-resolution / merge pipeline.            *)
(*                                                                         *)
(* Storage is the SQLite store of internal/database (rows keyed by the     *)
(* primary key id), the adapter is the Takeout feature converter, and the  *)
(* operations are the `import from` command (simple and smart mode), the   *)
(* three merge functions of cmd/placeli and the user's editing commands.   *)
(*                                                                         *)
(* Strings that the code builds by concatenation or hashing are tuples of  *)
(* their parts; SHA-256 is taken to be collision free.  Coordinates are    *)
(* integers in units of 1e-7 degree.  A timestamp is the reading of a      *)
(* logical clock that advances with every import run; 0 is the zero time.  *)
(***************************************************************************)
EXTENDS Integers, Sequences, FiniteSets, TLC

VARIABLES db, clock, edits, last, mergeArgs, mergeOut, input, output

vars == <<db, clock, edits, last, mergeArgs, mergeOut, input, output>>

(***************************************************************************)
(* Bounds of the exploration.                                              *)
(***************************************************************************)
MaxBatch == 2

MaxRuns == 3

MaxEdits == 1

(***************************************************************************)
(* Program constants.                                                      *)
(***************************************************************************)
\* 0.0001 degree, the proximity window of FindDuplicateCandidates
ProximityWindow == 1000

\* one unit of the 6th decimal printed by %f
FormatUnit == 10

EmptyID == <<>>

EmptyHash == <<>>

ZeroTime == 0

Abs(x) == IF x < 0 THEN 0 - x ELSE x

\* fmt's %f: six decimals, i.e. the coordinate rounded to 1e-6 degree
FormatF(x) == IF x >= 0 THEN (x + (FormatUnit \div 2)) \div FormatUnit
                        ELSE 0 - (((0 - x) + (FormatUnit \div 2)) \div FormatUnit)

\* first 12 hex characters of SHA-256(placeID)
generateID(placeID) == <<"sha256_12", placeID>>

generateHash(data) == <<"sha256", data>>

(***************************************************************************)
(* Custom-field names, spelled as the parts that prefix tests look at.     *)
(***************************************************************************)
KeyParts ==
  [ google_maps_url  |-> <<"google_", "maps_url">>,
    imported_from    |-> <<"imported_from">>,
    import_date      |-> <<"import_date">>,
    import_date_seen |-> <<"import_date", "_seen">>,
    last_import      |-> <<"last_import">>,
    last_sync        |-> <<"last_sync">>,
    priority         |-> <<"priority">> ]

HasPrefix(key, prefix) ==
  /\ Len(prefix) <= Len(KeyParts[key])
  /\ SubSeq(KeyParts[key], 1, Len(prefix)) = prefix

(***************************************************************************)
(* Takeout features the adapter is fed.  A feature is what one entry of a  *)
(* "Saved Places" file carries.  A provider id is the tuple of its parts;   *)
(* the empty tuple is the empty string.                                    *)
(***************************************************************************)
\* a Google Maps URL, as far as extractFromGoogleMapsURL looks at it: absent,
\* without a q parameter ("plain"), q holding coordinates, or q holding a name
Url(kind, lat, lng, name) == [kind |-> kind, lat |-> lat, lng |-> lng, name |-> name]

NoURL == Url("absent", 0, 0, "")

PlainURL == Url("plain", 0, 0, "")

extractFromGoogleMapsURL(gmapsURL) ==
  IF gmapsURL.kind = "coords"
    THEN [lat |-> gmapsURL.lat, lng |-> gmapsURL.lng, placeName |-> ""]
  ELSE IF gmapsURL.kind = "name"
    THEN [lat |-> 0, lng |-> 0, placeName |-> gmapsURL.name]
  ELSE [lat |-> 0, lng |-> 0, placeName |-> ""]

Feature(name, address, lat, lng, placeID, rating, description) ==
  [ name |-> name, address |-> address, lat |-> lat, lng |-> lng,
    place_id |-> placeID, rating |-> rating, description |-> description,
    google_maps_url |-> PlainURL, categories |-> <<>> ]

NativeID(s) == <<s>>

\* a cafe, as first exported
CafeV1 == Feature("Cafe", "1 Main St", 407128000, 740060000, NativeID("gp1"), 3, "")

\* the same cafe exported again: new rating, and a description
CafeV2 == Feature("Cafe", "1 Main St", 407128000, 740060000, NativeID("gp1"), 4, "desc")

\* another provider entity 0.00005 degree away from the cafe
Kiosk == Feature("Kiosk", "1 Main St", 407128500, 740060000, NativeID("gp2"), 5, "")

\* the cafe's provider id after the cafe moved and was renamed
CafeMoved == Feature("Cafe II", "9 Far Rd", 417128000, 750060000, NativeID("gp1"), 3, "")

Features == {CafeV1, CafeV2, Kiosk, CafeMoved}

Batches == UNION {[1..n -> Features] : n \in 1..MaxBatch}

NoPlace == [nil |-> TRUE]

\* internal/importer/takeout.go convertTakeoutPlace
convertTakeoutPlace(tp, now) ==
  LET fromURL == extractFromGoogleMapsURL(tp.google_maps_url)
      useURL == tp.name = "" /\ tp.address = "" /\ tp.google_maps_url # NoURL
      hasCoords == useURL /\ fromURL.lat # 0 /\ fromURL.lng # 0
      lat == IF hasCoords THEN fromURL.lat ELSE tp.lat
      lng == IF hasCoords THEN fromURL.lng ELSE tp.lng
      name == IF hasCoords
                THEN "Saved Place (" \o ToString(FormatF(lat)) \o ", "
                                     \o ToString(FormatF(lng)) \o ")"
              ELSE IF useURL /\ fromURL.placeName # "" THEN fromURL.placeName
              ELSE tp.name
      address == tp.address
      placeID == IF tp.place_id # EmptyID
                   THEN tp.place_id
                   ELSE <<"takeout_", generateHash(name \o address)>>
      sourceData == <<name, address, FormatF(lat), FormatF(lng), placeID>>
  IN IF name = "" /\ address = "" /\ lat = 0 /\ lng = 0
       THEN NoPlace
       ELSE [ id |-> generateID(placeID),
              place_id |-> placeID,
              name |-> name,
              address |-> address,
              lat |-> lat,
              lng |-> lng,
              categories |-> tp.categories,
              rating |-> tp.rating,
              user_notes |-> tp.description,
              user_tags |-> <<>>,
              custom_fields |-> [ google_maps_url |-> tp.google_maps_url,
                                  imported_from |-> "takeout",
                                  import_date |-> now ],
              created_at |-> now,
              source_hash |-> generateHash(sourceData) ]

\* parseListFile: the places of a file, in feature order
RECURSIVE parseListFile(_, _)
parseListFile(features, now) ==
  IF features = <<>> THEN <<>>
  ELSE LET p == convertTakeoutPlace(Head(features), now)
           rest == parseListFile(Tail(features), now)
       IN IF p = NoPlace THEN rest ELSE <<p>> \o rest

(***************************************************************************)
(* The other adapters.  An entry is what the adapter reads of one parsed   *)
(* item; a record has the fields of models.Place the pipeline looks at.    *)
(***************************************************************************)
Record(placeID, name, address, lat, lng, categories, notes, tags, fields, hash, now) ==
  [ id |-> generateID(placeID), place_id |-> placeID, name |-> name,
    address |-> address, lat |-> lat, lng |-> lng, categories |-> categories,
    rating |-> 0, user_notes |-> notes, user_tags |-> tags,
    custom_fields |-> fields, created_at |-> now, source_hash |-> hash ]

\* a row of a Takeout "Saved" CSV file, after getCSVField / getCSVFloat
CSVRow(name, address, url, lat, lng) ==
  [ name |-> name, address |-> address, url |-> url, note |-> "", list |-> "",
    lat |-> lat, lng |-> lng ]

\* internal/importer/takeout.go parseCSVRecord
parseCSVRecord(row, now) ==
  LET fromURL == extractFromGoogleMapsURL(row.url)
      useURL == row.lat = 0 /\ row.lng = 0 /\ row.url # NoURL
      hasCoords == useURL /\ fromURL.lat # 0 /\ fromURL.lng # 0
      lat == IF hasCoords THEN fromURL.lat ELSE row.lat
      lng == IF hasCoords THEN fromURL.lng ELSE row.lng
      name == IF useURL /\ row.name = "" /\ fromURL.placeName # ""
                THEN fromURL.placeName
                ELSE row.name
      placeID == <<"saved_", generateHash(<<name \o row.address, row.url>>)>>
      base == [ imported_from |-> "takeout_saved_csv", import_date |-> now ]
      fields == IF row.url # NoURL
                  THEN [google_maps_url |-> row.url] @@ base
                  ELSE base
      sourceData == <<name, row.address, FormatF(lat), FormatF(lng), placeID>>
  IN IF row.name = "" /\ row.address = "" /\ row.url = NoURL
       THEN NoPlace
       ELSE Record(placeID, name, row.address, lat, lng, <<>>, row.note,
                   IF row.list # "" THEN <<row.list>> ELSE <<>>,
                   fields, generateHash(sourceData), now)

\* an OSM node: its id, position and the tags the adapter reads
OSMNode(id, name, lat, lng, street, amenity, shop, craft) ==
  [ id |-> id, lat |-> lat, lng |-> lng,
    tags |-> [ name |-> name, street |-> street, amenity |-> amenity,
               shop |-> shop, craft |-> craft ] ]

\* strings.Title on the tag values in use
Title(value) ==
  IF value = "cafe" THEN "Cafe"
  ELSE IF value = "bakery" THEN "Bakery"
  ELSE value

\* OSMImporter.humanizeCategory
humanizeCategory(tagKey, value) ==
  IF tagKey = "amenity"
    THEN IF value = "restaurant" THEN "Restaurant"
         ELSE IF value = "cafe" THEN "Cafe"
         ELSE IF value = "bar" \/ value = "pub" THEN "Bar"
         ELSE Title(value)
  ELSE IF tagKey = "shop" THEN "Shopping - " \o Title(value)
  ELSE Title(value)

categoryTags == <<"amenity", "shop", "craft">>

\* OSMImporter.extractCategories: one category per category tag that is set
RECURSIVE osmExtractCategories(_, _)
osmExtractCategories(tags, i) ==
  IF i > Len(categoryTags) THEN <<>>
  ELSE (IF tags[categoryTags[i]] # ""
          THEN <<humanizeCategory(categoryTags[i], tags[categoryTags[i]])>>
          ELSE <<>>) \o osmExtractCategories(tags, i + 1)

\* OSMImporter.buildAddress over the address tag carried here
osmBuildAddress(tags) == tags.street

\* OSMImporter.convertOSMNode
convertOSMNode(node, now) ==
  LET name == node.tags.name
      sourceData == <<"osm", node.id, name, FormatF(node.lat), FormatF(node.lng)>>
      placeID == <<"osm_", node.id>>
      fields == [ imported_from |-> "openstreetmap", import_date |-> now ]
  IN IF name = ""
       THEN NoPlace
       ELSE Record(placeID, name, osmBuildAddress(node.tags), node.lat, node.lng,
                   osmExtractCategories(node.tags, 1), "", <<>>, fields,
                   generateHash(sourceData), now)

\* a Foursquare venue with the comment of its check-in
FoursquareVenue(id, name, address, lat, lng, categories) ==
  [ id |-> id, name |-> name, address |-> address, lat |-> lat, lng |-> lng,
    categories |-> categories, comments |-> "" ]

\* FoursquareImporter.extractCategories: the non-empty category names
RECURSIVE foursquareExtractCategories(_)
foursquareExtractCategories(categories) ==
  IF categories = <<>> THEN <<>>
  ELSE (IF Head(categories) # "" THEN <<Head(categories)>> ELSE <<>>)
         \o foursquareExtractCategories(Tail(categories))

\* FoursquareImporter.convertFoursquareVenue
convertFoursquareVenue(venue, now) ==
  LET sourceData == <<"foursquare", venue.id, venue.name,
                      FormatF(venue.lat), FormatF(venue.lng)>>
      placeID == <<"4sq_", venue.id>>
      fields == [ imported_from |-> "foursquare", import_date |-> now ]
  IN IF venue.name = ""
       THEN NoPlace
       ELSE Record(placeID, venue.name, venue.address, venue.lat, venue.lng,
                   foursquareExtractCategories(venue.categories), venue.comments,
                   <<>>, fields, generateHash(sourceData), now)

(***************************************************************************)
(* Storage: the places and user_data tables, one row per id.               *)
(***************************************************************************)
EmptyDB == [i \in {} |-> NoPlace]

Rows(d) == {d[i] : i \in DOMAIN d}

\* SavePlace as INSERT OR IGNORE: a row whose id is taken is left as it is
SavePlaceInsertOrIgnore(d, place, now) ==
  LET stamped == IF place.created_at = ZeroTime
                   THEN [place EXCEPT !.created_at = now]
                   ELSE place
  IN d @@ (stamped.id :> stamped)

\* internal/database SavePlace: INSERT OR REPLACE keyed by id, in one
\* transaction over both tables
SavePlace(d, place, now) ==
  LET stamped == IF place.created_at = ZeroTime
                   THEN [place EXCEPT !.created_at = now]
                   ELSE place
  IN (stamped.id :> stamped) @@ d

\* rows WHERE p.source_hash = ?
FindPlaceBySourceHash(d, hash) ==
  {r \in Rows(d) : r.source_hash = hash}

\* FindDuplicateCandidates without the four tests against 0
FindDuplicateCandidatesNoSentinel(d, place) ==
  {r \in Rows(d) :
     \/ r.place_id = place.place_id /\ r.place_id # EmptyID
     \/ /\ Abs(r.lat - place.lat) < ProximityWindow
        /\ Abs(r.lng - place.lng) < ProximityWindow}

\* FindDuplicateCandidates without the test p.place_id != ''
FindDuplicateCandidatesAnyProviderID(d, place) ==
  {r \in Rows(d) :
     \/ r.place_id = place.place_id
     \/ /\ Abs(r.lat - place.lat) < ProximityWindow
        /\ Abs(r.lng - place.lng) < ProximityWindow
        /\ r.lat # 0 /\ r.lng # 0 /\ place.lat # 0 /\ place.lng # 0}

\* rows WHERE place_id matches and is not '' OR both coordinates lie within
\* the window and none of the four coordinates is 0
FindDuplicateCandidates(d, place) ==
  {r \in Rows(d) :
     \/ r.place_id = place.place_id /\ r.place_id # EmptyID
     \/ /\ Abs(r.lat - place.lat) < ProximityWindow
        /\ Abs(r.lng - place.lng) < ProximityWindow
        /\ r.lat # 0 /\ r.lng # 0 /\ place.lat # 0 /\ place.lng # 0}

\* findExistingPlace asking for the duplicate candidates before the source hash
findExistingPlaceCandidatesFirst(d, place) ==
  LET byHash == IF place.source_hash # EmptyHash
                  THEN FindPlaceBySourceHash(d, place.source_hash)
                  ELSE {}
      candidates == FindDuplicateCandidates(d, place)
  IN IF candidates # {} THEN candidates ELSE byHash

\* cmd/placeli import: the rows findExistingPlace may return; {} is nil.
\* The queries carry no ORDER BY, so any matching row can be the first one.
findExistingPlace(d, place) ==
  LET byHash == IF place.source_hash # EmptyHash
                  THEN FindPlaceBySourceHash(d, place.source_hash)
                  ELSE {}
  IN IF byHash # {} THEN byHash ELSE FindDuplicateCandidates(d, place)

(***************************************************************************)
(* Merge functions.                                                        *)
(***************************************************************************)
Restrict(f, S) == [k \in S |-> f[k]]

\* g's entries laid over f's
Overlay(f, g) == g @@ f

systemPrefixes ==
  { <<"google_">>, <<"osm_">>, <<"apple_">>, <<"foursquare_">>, <<"gpx_">>,
    <<"imported_from">>, <<"import_date">> }

isSystemField(key) ==
  \E prefix \in systemPrefixes : HasPrefix(key, prefix) \/ KeyParts[key] = prefix

\* mergeImportedPlace without the two assignments that restore the user's
\* notes and tags
mergeImportedPlaceTakingUserData(existing, imported, now) ==
  LET kept == {k \in DOMAIN existing.custom_fields : ~isSystemField(k)}
      fields == Overlay(imported.custom_fields, Restrict(existing.custom_fields, kept))
  IN [ imported EXCEPT
         !.id = existing.id,
         !.created_at = existing.created_at,
         !.custom_fields = Overlay(fields, [last_import |-> now]) ]

\* cmd/placeli import (current): mergeImportedPlace
mergeImportedPlace(existing, imported, now) ==
  LET kept == {k \in DOMAIN existing.custom_fields : ~isSystemField(k)}
      fields == Overlay(imported.custom_fields, Restrict(existing.custom_fields, kept))
  IN [ imported EXCEPT
         !.id = existing.id,
         !.created_at = existing.created_at,
         !.user_notes = existing.user_notes,
         !.user_tags = existing.user_tags,
         !.custom_fields = Overlay(fields, [last_import |-> now]) ]

\* mergePlace without the assignment that restores created_at
mergePlaceFreshCreatedAt(existing, new, now) ==
  LET kept == {k \in DOMAIN existing.custom_fields :
                 k # "google_maps_url" /\ k # "imported_from" /\ k # "import_date"}
      fields == Overlay(new.custom_fields, Restrict(existing.custom_fields, kept))
  IN [ new EXCEPT
         !.id = existing.id,
         !.user_notes = existing.user_notes,
         !.user_tags = existing.user_tags,
         !.custom_fields = Overlay(fields, [last_sync |-> now]) ]

\* cmd/placeli sync: mergePlace
mergePlace(existing, new, now) ==
  LET kept == {k \in DOMAIN existing.custom_fields :
                 k # "google_maps_url" /\ k # "imported_from" /\ k # "import_date"}
      fields == Overlay(new.custom_fields, Restrict(existing.custom_fields, kept))
  IN [ new EXCEPT
         !.id = existing.id,
         !.created_at = existing.created_at,
         !.user_notes = existing.user_notes,
         !.user_tags = existing.user_tags,
         !.custom_fields = Overlay(fields, [last_sync |-> now]) ]

importsSystemPrefixes ==
  { <<"google_">>, <<"osm_">>, <<"apple_">>, <<"foursquare_">>, <<"gpx_">> }

\* cmd/placeli imports (imports.go): mergeImportedPlace
importsMergeImportedPlace(existing, imported) ==
  LET kept == {k \in DOMAIN existing.custom_fields :
                 \/ ~(\E prefix \in importsSystemPrefixes : HasPrefix(k, prefix))
                 \/ k = "imported_from"
                 \/ k = "import_date"}
  IN [ imported EXCEPT
         !.id = existing.id,
         !.created_at = existing.created_at,
         !.user_notes = existing.user_notes,
         !.user_tags = existing.user_tags,
         !.custom_fields = Overlay(imported.custom_fields,
                                   Restrict(existing.custom_fields, kept)) ]

(***************************************************************************)
(* The import orchestrator.  A run state is the store and the three        *)
(* counters; failAt is the set of batch positions whose storage write      *)
(* returns an error; errors collects the positions whose "Error saving" or *)
(* "Error updating" line was printed.  The result is the set of run states *)
(* the run can end in (one per choice of the row a query returns first).   *)
(***************************************************************************)
RunStart(d) ==
  [db |-> d, added |-> 0, updated |-> 0, skipped |-> 0, errors |-> {}, log |-> <<>>]

\* the line an iteration prints for its record: "Error saving/updating place",
\* "Added new place", "Updated existing place" or "Skipped: already exists"
Logged(st, next) ==
  LET line == IF next.errors # st.errors THEN "error"
              ELSE IF next.added # st.added THEN "added"
              ELSE IF next.updated # st.updated THEN "updated"
              ELSE "skipped"
  IN [next EXCEPT !.log = Append(st.log, line)]

\* an iteration of simpleImportPlaces that saves without looking at dryRun
simpleImportStepIgnoringDryRun(st, place, i, dryRun, now, failAt) ==
  IF i \in failAt
    THEN [st EXCEPT !.skipped = @ + 1, !.errors = @ \cup {i}]
    ELSE [st EXCEPT !.db = SavePlace(@, place, now),
                    !.added = @ + 1]

\* one iteration of simpleImportPlaces
simpleImportStep(st, place, i, dryRun, now, failAt) ==
  IF ~dryRun /\ i \in failAt
    THEN [st EXCEPT !.skipped = @ + 1, !.errors = @ \cup {i}]
    ELSE [st EXCEPT !.db = IF dryRun THEN @ ELSE SavePlace(@, place, now),
                    !.added = @ + 1]

RECURSIVE simpleImportFrom(_, _, _, _, _, _)
simpleImportFrom(st, places, i, dryRun, now, failAt) ==
  IF i > Len(places) THEN st
  ELSE simpleImportFrom(Logged(st, simpleImportStep(st, places[i], i, dryRun, now, failAt)),
                        places, i + 1, dryRun, now, failAt)

simpleImportPlaces(d, places, dryRun, now, failAt) ==
  {simpleImportFrom(RunStart(d), places, 1, dryRun, now, failAt)}

\* an iteration of smartImportPlaces without the `continue` after a failed
\* save: the record is counted although nothing was written
smartImportStepCountingFailedWrite(st, place, i, dryRun, force, now, failAt) ==
  LET found == findExistingPlace(st.db, place)
      written == ~dryRun /\ i \notin failAt
      noted == IF ~dryRun /\ i \in failAt
                 THEN [st EXCEPT !.errors = @ \cup {i}]
                 ELSE st
  IN IF found = {}
       THEN {[noted EXCEPT !.db = IF written THEN SavePlace(@, place, now) ELSE @,
                           !.added = @ + 1]}
       ELSE IF force
         THEN {[noted EXCEPT
                  !.db = IF written
                           THEN SavePlace(@, mergeImportedPlace(existing, place, now), now)
                           ELSE @,
                  !.updated = @ + 1] : existing \in found}
         ELSE {[st EXCEPT !.skipped = @ + 1]}

\* an iteration of smartImportPlaces that leaves a matched record uncounted
\* when force is off
smartImportStepSkipUncounted(st, place, i, dryRun, force, now, failAt) ==
  LET found == findExistingPlace(st.db, place)
      written == ~dryRun /\ i \notin failAt
  IN IF found = {}
       THEN IF ~dryRun /\ i \in failAt
              THEN {[st EXCEPT !.errors = @ \cup {i}]}
              ELSE {[st EXCEPT !.db = IF written THEN SavePlace(@, place, now) ELSE @,
                               !.added = @ + 1]}
       ELSE IF force
         THEN {IF ~dryRun /\ i \in failAt
                 THEN [st EXCEPT !.errors = @ \cup {i}]
                 ELSE [st EXCEPT
                         !.db = IF written
                                  THEN SavePlace(@, mergeImportedPlace(existing, place, now), now)
                                  ELSE @,
                         !.updated = @ + 1] : existing \in found}
         ELSE {st}

\* an iteration of smartImportPlaces whose test of force is inverted
smartImportStepForceInverted(st, place, i, dryRun, force, now, failAt) ==
  LET found == findExistingPlace(st.db, place)
      written == ~dryRun /\ i \notin failAt
  IN IF found = {}
       THEN IF ~dryRun /\ i \in failAt
              THEN {[st EXCEPT !.errors = @ \cup {i}]}
              ELSE {[st EXCEPT !.db = IF written THEN SavePlace(@, place, now) ELSE @,
                               !.added = @ + 1]}
       ELSE IF ~force
         THEN {IF ~dryRun /\ i \in failAt
                 THEN [st EXCEPT !.errors = @ \cup {i}]
                 ELSE [st EXCEPT
                         !.db = IF written
                                  THEN SavePlace(@, mergeImportedPlace(existing, place, now), now)
                                  ELSE @,
                         !.updated = @ + 1] : existing \in found}
         ELSE {[st EXCEPT !.skipped = @ + 1]}

\* one iteration of smartImportPlaces
smartImportStep(st, place, i, dryRun, force, now, failAt) ==
  LET found == findExistingPlace(st.db, place)
      written == ~dryRun /\ i \notin failAt
  IN IF found = {}
       THEN IF ~dryRun /\ i \in failAt
              THEN {[st EXCEPT !.errors = @ \cup {i}]}
              ELSE {[st EXCEPT !.db = IF written THEN SavePlace(@, place, now) ELSE @,
                               !.added = @ + 1]}
       ELSE IF force
         THEN {IF ~dryRun /\ i \in failAt
                 THEN [st EXCEPT !.errors = @ \cup {i}]
                 ELSE [st EXCEPT
                         !.db = IF written
                                  THEN SavePlace(@, mergeImportedPlace(existing, place, now), now)
                                  ELSE @,
                         !.updated = @ + 1] : existing \in found}
         ELSE {[st EXCEPT !.skipped = @ + 1]}

RECURSIVE smartImportFrom(_, _, _, _, _, _, _)
smartImportFrom(st, places, i, dryRun, force, now, failAt) ==
  IF i > Len(places) THEN {st}
  ELSE UNION {smartImportFrom(Logged(st, next), places, i + 1, dryRun, force, now, failAt) :
                next \in smartImportStep(st, places[i], i, dryRun, force, now, failAt)}

smartImportPlaces(d, places, dryRun, force, now, failAt) ==
  smartImportFrom(RunStart(d), places, 1, dryRun, force, now, failAt)

\* importFromCmd.RunE once the file is read: parse, then process
importFrom(d, features, noMerge, dryRun, force, now, failAt) ==
  LET places == parseListFile(features, now)
  IN IF places = <<>> THEN {RunStart(d)}
     ELSE IF noMerge THEN simpleImportPlaces(d, places, dryRun, now, failAt)
     ELSE smartImportPlaces(d, places, dryRun, force, now, failAt)

(***************************************************************************)
(* Editing commands.                                                       *)
(***************************************************************************)
\* internal/tui review saveEdit, fields "notes" and "tags"
saveEdit(place, editField, editValue) ==
  IF editField = "notes" THEN [place EXCEPT !.user_notes = editValue]
  ELSE IF editField = "tags"
    THEN [place EXCEPT !.user_tags = IF editValue = "" THEN <<>> ELSE <<editValue>>]
  ELSE place

\* cmd/placeli fields set <place-id> <field-name> <value>
fieldsSet(place, fieldName, value) ==
  [place EXCEPT !.custom_fields = Overlay(@, (fieldName :> value))]

EditInputs == {<<"notes", "mine">>, <<"tags", "fav">>}

UserFieldNames == {"priority"}

(***************************************************************************)
(* State machine of the command line: import runs and edits.               *)
(***************************************************************************)
NoArgs == [nil |-> TRUE]

Init ==
  /\ db = EmptyDB
  /\ clock = 0
  /\ edits = 0
  /\ last = [op |-> "none"]
  /\ mergeArgs = NoArgs
  /\ mergeOut = NoPlace
  /\ input = NoArgs
  /\ output = NoArgs

\* the flags of `import from`; --force has no effect under --no-merge
ImportFlags ==
  {f \in [noMerge : BOOLEAN, dryRun : BOOLEAN, force : BOOLEAN] :
     f.noMerge => ~f.force}

Run(features, flags, repeat, failAt) ==
  /\ clock < MaxRuns
  /\ clock' = clock + 1
  /\ \E out \in importFrom(db, features, flags.noMerge, flags.dryRun, flags.force,
                           clock + 1, failAt) :
       /\ db' = out.db
       /\ last' = [ op |-> "import", features |-> features, flags |-> flags,
                    time |-> clock + 1, before |-> db,
                    added |-> out.added, updated |-> out.updated,
                    skipped |-> out.skipped,
                    failAt |-> failAt, errors |-> out.errors, log |-> out.log,
                    repeat |-> repeat,
                    prior |-> IF repeat = "no"
                                THEN <<>>
                                ELSE <<last.added, last.updated, last.skipped>> ]
  /\ UNCHANGED <<edits, mergeArgs, mergeOut, input, output>>

\* placeli import from <file> [--dry-run] [--force] [--no-merge]
ImportFrom ==
  \E features \in Batches, flags \in ImportFlags : Run(features, flags, "no", {})

\* the same command line entered again on the same file
ImportAgain ==
  /\ last.op = "import"
  /\ Run(last.features, last.flags, "again", {})

\* after a dry run: "Run without --dry-run to apply changes"
ImportApply ==
  /\ last.op = "import"
  /\ last.flags.dryRun
  /\ Run(last.features, [last.flags EXCEPT !.dryRun = FALSE], "apply", {})

\* the review screen saves an edited note or tag list
ReviewEdit ==
  /\ edits < MaxEdits
  /\ \E id \in DOMAIN db, e \in EditInputs :
       /\ db' = SavePlace(db, saveEdit(db[id], e[1], e[2]), clock)
       /\ last' = [op |-> "edit", id |-> id]
  /\ edits' = edits + 1
  /\ UNCHANGED <<clock, mergeArgs, mergeOut, input, output>>

\* placeli fields set
FieldsSet ==
  /\ edits < MaxEdits
  /\ \E id \in DOMAIN db, k \in UserFieldNames :
       /\ db' = SavePlace(db, fieldsSet(db[id], k, "high"), clock)
       /\ last' = [op |-> "edit", id |-> id]
  /\ edits' = edits + 1
  /\ UNCHANGED <<clock, mergeArgs, mergeOut, input, output>>

\* a committed run during which the storage writes of some batch positions
\* return an error
ImportFailing ==
  \E features \in Batches, flags \in ImportFlags :
    \E failAt \in (SUBSET (1..Len(features))) \ {{}} :
      /\ ~flags.dryRun
      /\ Run(features, flags, "no", failAt)

Next == ImportFrom \/ ImportAgain \/ ImportApply \/ ReviewEdit \/ FieldsSet

Spec == Init /\ [][Next]_vars

\* placeli import from <file> [--force]: a committed smart-mode run
ImportSmart ==
  \E features \in Batches, force \in BOOLEAN :
    Run(features, [noMerge |-> FALSE, dryRun |-> FALSE, force |-> force], "no", {})

NextSmart == ImportSmart

\* the command line when every run is a committed smart-mode import
SpecSmart == Init /\ [][NextSmart]_vars

\* the command line when storage writes can fail
NextFail == ImportFrom \/ ImportFailing \/ ReviewEdit \/ FieldsSet

SpecFail == Init /\ [][NextFail]_vars

(***************************************************************************)
(* The merge functions on their own: a stored place (imported by a first   *)
(* run, then possibly edited by the user or refreshed by an earlier merge) *)
(* meets a place freshly parsed by a second run.                           *)
(***************************************************************************)
FirstImport == 1

SecondImport == 2

Edited(p) ==
  { p,
    saveEdit(p, "notes", "mine"),
    saveEdit(p, "tags", "fav"),
    fieldsSet(p, "priority", "high"),
    fieldsSet(saveEdit(p, "notes", "mine"), "import_date_seen", "monday") }

StoredPlaces ==
  LET fresh == {convertTakeoutPlace(f, FirstImport) : f \in Features}
      edited == UNION {Edited(p) : p \in fresh}
      refreshed == {mergeImportedPlace(e, convertTakeoutPlace(CafeV1, FirstImport), FirstImport) :
                      e \in edited}
  IN edited \cup refreshed

ParsedPlaces == {convertTakeoutPlace(f, SecondImport) : f \in Features}

InitMerge ==
  /\ db = EmptyDB
  /\ clock = SecondImport
  /\ edits = 0
  /\ last = [op |-> "none"]
  /\ mergeArgs \in [existing : StoredPlaces, imported : ParsedPlaces]
  /\ mergeOut = NoPlace
  /\ input = NoArgs
  /\ output = NoArgs

Merged(by, place) ==
  /\ mergeArgs # NoArgs
  /\ mergeOut = NoPlace
  /\ mergeOut' = [by |-> by, place |-> place]
  /\ UNCHANGED <<db, clock, edits, last, mergeArgs, input, output>>

\* import --force reaches a duplicate
MergeByImport ==
  Merged("import", mergeImportedPlace(mergeArgs.existing, mergeArgs.imported, clock))

\* sync --force reaches a duplicate
MergeBySync ==
  Merged("sync", mergePlace(mergeArgs.existing, mergeArgs.imported, clock))

\* imports --overwrite reaches a duplicate
MergeByImports ==
  Merged("imports", importsMergeImportedPlace(mergeArgs.existing, mergeArgs.imported))

NextMerge == MergeByImport \/ MergeBySync \/ MergeByImports

SpecMerge == InitMerge /\ [][NextMerge]_vars

(***************************************************************************)
(* The duplicate lookups on their own: a store of at most MaxStored rows   *)
(* (any row can be stored: PUT /api/place/<id> saves the place it is sent) *)
(* is asked for the duplicates of a place.                                 *)
(***************************************************************************)
MaxStored == 2

\* internal/database GetPlace: the row of an id, or sql.ErrNoRows
GetPlace(d, id) == IF id \in DOMAIN d THEN {d[id]} ELSE {}

\* a text as the tuple of its parts
Text(str) == IF str = "" THEN <<>> ELSE <<str>>

\* SQL: text LIKE '%' || query || '%'
Like(text, query) ==
  \E k \in 0..(Len(text) - Len(query)) : SubSeq(text, k + 1, k + Len(query)) = query

\* internal/database SearchPlaces
SearchPlaces(d, query) ==
  {r \in Rows(d) : \/ Like(Text(r.name), query)
                   \/ Like(Text(r.address), query)
                   \/ Like(Text(r.user_notes), query)}

\* cmd/placeli sync: the rows its findExistingPlace may return; {} is nil
syncFindExistingPlace(d, place) ==
  LET byID == IF place.place_id # EmptyID THEN GetPlace(d, place.id) ELSE {}
      searchQuery == IF place.address # ""
                       THEN <<place.name, " ", place.address>>
                       ELSE <<place.name>>
      exact == IF place.name # ""
                 THEN {r \in SearchPlaces(d, searchQuery) :
                         r.name = place.name /\ r.address = place.address}
                 ELSE {}
  IN IF byID # {} THEN byID ELSE exact

StoredRow(id, placeID, name, address, lat, lng, hash) ==
  [ id |-> id, place_id |-> placeID, name |-> name, address |-> address,
    lat |-> lat, lng |-> lng, categories |-> <<>>, rating |-> 0,
    user_notes |-> "", user_tags |-> <<>>,
    custom_fields |-> [k \in {} |-> ""], created_at |-> FirstImport,
    source_hash |-> hash ]

QueryPlaces ==
  { StoredRow(<<"api", "a">>, EmptyID, "Null Island", "", 0, 0, EmptyHash),
    StoredRow(<<"api", "b">>, EmptyID, "Null Island", "", 0, 0, generateHash(<<"b">>)),
    StoredRow(generateID(NativeID("gp3")), NativeID("gp3"), "Reef", "", 500, 500,
              generateHash(<<"c">>)),
    StoredRow(<<"api", "d">>, NativeID("gp3"), "Null Island", "", 0, 0,
              generateHash(<<"d">>)),
    StoredRow(<<"api", "e">>, EmptyID, "Pier", "2 Quay", 0, 740060000, EmptyHash),
    StoredRow(generateID(NativeID("gp4")), NativeID("gp4"), "Pier", "2 Quay", 300, 740060300,
              generateHash(<<"f">>)),
    StoredRow(<<"api", "g">>, EmptyID, "Cafe", "1 Main St", 407128000, 740060000,
              generateHash(<<"g">>)),
    StoredRow(<<"api", "h">>, EmptyID, "Bar", "", 407128500, 740060000,
              generateHash(<<"g">>)) }

QueryStores ==
  { [i \in {r.id : r \in S} |-> CHOOSE r \in S : r.id = i] :
      S \in {T \in SUBSET QueryPlaces : Cardinality(T) <= MaxStored} }

InitQuery ==
  /\ db \in QueryStores
  /\ clock = SecondImport
  /\ edits = 0
  /\ last = [op |-> "none"]
  /\ mergeArgs = NoArgs
  /\ mergeOut = NoPlace
  /\ input \in QueryPlaces
  /\ output = NoArgs

Answered(by, rows) ==
  /\ output = NoArgs
  /\ output' = [by |-> by, rows |-> rows]
  /\ UNCHANGED <<db, clock, edits, last, mergeArgs, mergeOut, input>>

QueryCandidates == Answered("candidates", FindDuplicateCandidates(db, input))

QueryImport == Answered("import", findExistingPlace(db, input))

QuerySync == Answered("sync", syncFindExistingPlace(db, input))

\* cmd/placeli imports looks up the source hash only
QueryImports == Answered("imports", FindPlaceBySourceHash(db, input.source_hash))

NextQuery == QueryCandidates \/ QueryImport \/ QuerySync \/ QueryImports

SpecQuery == InitQuery /\ [][NextQuery]_vars

(***************************************************************************)
(* The adapters on their own: two entries of one source are converted, so  *)
(* that the records of entries that differ in one field can be compared.   *)
(***************************************************************************)
With(entry, field, value) == [entry EXCEPT ![field] = value]

\* a feature that carries nothing but, possibly, a URL
Blank(url) == With(Feature("", "", 0, 0, EmptyID, 0, ""), "google_maps_url", url)

CoordsURL == Url("coords", 561499374, 125726697, "")

NameURL == Url("name", 0, 0, "Harbour Bath")

TakeoutEntries ==
  { CafeV1, CafeV2,
    With(CafeV1, "lat", CafeV1.lat + 1),
    With(CafeV1, "lat", CafeV1.lat + FormatUnit),
    With(CafeV1, "lng", CafeV1.lng + FormatUnit),
    With(CafeV1, "name", "Cafe II"),
    With(CafeV1, "address", "9 Far Rd"),
    With(CafeV1, "place_id", NativeID("gp2")),
    With(CafeV1, "categories", <<"cafe", "coffee">>),
    With(CafeV1, "categories", <<"cafe", "cafe">>),
    Blank(NoURL), Blank(PlainURL), Blank(CoordsURL), Blank(NameURL) }

CSVEntries ==
  { CSVRow("Cafe", "1 Main St", PlainURL, 407128000, 740060000),
    CSVRow("Cafe", "1 Main St", PlainURL, 407128001, 740060000),
    CSVRow("Cafe", "1 Main St", PlainURL, 407128000 + FormatUnit, 740060000),
    CSVRow("Cafe II", "1 Main St", PlainURL, 407128000, 740060000),
    CSVRow("Cafe", "9 Far Rd", PlainURL, 407128000, 740060000),
    CSVRow("", "", NoURL, 0, 0),
    CSVRow("", "", PlainURL, 0, 0),
    CSVRow("", "", CoordsURL, 0, 0),
    CSVRow("", "", NameURL, 0, 0) }

OSMEntries ==
  { OSMNode(1, "Cafe", 407128000, 740060000, "Main St", "cafe", "", ""),
    OSMNode(1, "Cafe", 407128001, 740060000, "Main St", "cafe", "", ""),
    OSMNode(1, "Cafe", 407128000 + FormatUnit, 740060000, "Main St", "cafe", "", ""),
    OSMNode(1, "Cafe II", 407128000, 740060000, "Main St", "cafe", "", ""),
    OSMNode(1, "Cafe", 407128000, 740060000, "Far Rd", "cafe", "", ""),
    OSMNode(2, "Cafe", 407128000, 740060000, "Main St", "cafe", "", ""),
    OSMNode(1, "Cafe", 407128000, 740060000, "Main St", "cafe", "bakery", ""),
    OSMNode(1, "Cafe", 407128000, 740060000, "Main St", "cafe", "", "cafe"),
    OSMNode(1, "", 0, 0, "", "", "", "") }

FoursquareEntries ==
  { FoursquareVenue("v1", "Cafe", "1 Main St", 407128000, 740060000, <<"Coffee Shop">>),
    FoursquareVenue("v1", "Cafe", "1 Main St", 407128001, 740060000, <<"Coffee Shop">>),
    FoursquareVenue("v1", "Cafe II", "1 Main St", 407128000, 740060000, <<"Coffee Shop">>),
    FoursquareVenue("v1", "Cafe", "9 Far Rd", 407128000, 740060000, <<"Coffee Shop">>),
    FoursquareVenue("v2", "Cafe", "1 Main St", 407128000, 740060000, <<"Coffee Shop">>),
    FoursquareVenue("v1", "Cafe", "1 Main St", 407128000, 740060000,
                    <<"Coffee Shop", "", "Coffee Shop">>),
    FoursquareVenue("v1", "", "", 0, 0, <<>>) }

EntryPairs(source, entries) == [source : {source}, a : entries, b : entries]

InitAdapter ==
  /\ db = EmptyDB
  /\ clock = FirstImport
  /\ edits = 0
  /\ last = [op |-> "none"]
  /\ mergeArgs = NoArgs
  /\ mergeOut = NoPlace
  /\ input \in EntryPairs("takeout", TakeoutEntries)
               \cup EntryPairs("csv", CSVEntries)
               \cup EntryPairs("osm", OSMEntries)
               \cup EntryPairs("foursquare", FoursquareEntries)
  /\ output = NoArgs

Converted(source, a, b) ==
  /\ input.source = source
  /\ output = NoArgs
  /\ output' = [source |-> source, a |-> a, b |-> b]
  /\ UNCHANGED <<db, clock, edits, last, mergeArgs, mergeOut, input>>

ConvertTakeout ==
  Converted("takeout", convertTakeoutPlace(input.a, clock), convertTakeoutPlace(input.b, clock))

ConvertCSV ==
  Converted("csv", parseCSVRecord(input.a, clock), parseCSVRecord(input.b, clock))

ConvertOSM ==
  Converted("osm", convertOSMNode(input.a, clock), convertOSMNode(input.b, clock))

ConvertFoursquare ==
  Converted("foursquare", convertFoursquareVenue(input.a, clock),
                          convertFoursquareVenue(input.b, clock))

NextAdapter == ConvertTakeout \/ ConvertCSV \/ ConvertOSM \/ ConvertFoursquare

SpecAdapter == InitAdapter /\ [][NextAdapter]_vars

(***************************************************************************)
(* The Foursquare export: a list of check-ins, grouped by venue.           *)
(***************************************************************************)
MaxCheckins == 3

FoursquareCheckin(venue, createdAt, comments) ==
  [venue |-> venue, created_at |-> createdAt, comments |-> comments]

\* time.Unix(t, 0).Format("2006-01-02"): the day the second t falls on
FormatDate(t) == <<"day", t \div 86400>>

RECURSIVE checkinComments(_)
checkinComments(checkins) ==
  IF checkins = <<>> THEN <<>>
  ELSE (IF Head(checkins).comments # "" THEN <<Head(checkins).comments>> ELSE <<>>)
         \o checkinComments(Tail(checkins))

\* the loop of addCheckinMetadata over checkins[i..]: the running first and last
RECURSIVE firstAndLast(_, _, _, _)
firstAndLast(checkins, i, firstCheckin, lastCheckin) ==
  IF i > Len(checkins) THEN <<firstCheckin, lastCheckin>>
  ELSE firstAndLast(checkins, i + 1,
         IF checkins[i].created_at < firstCheckin THEN checkins[i].created_at ELSE firstCheckin,
         IF checkins[i].created_at > lastCheckin THEN checkins[i].created_at ELSE lastCheckin)

\* FoursquareImporter.addCheckinMetadata
addCheckinMetadata(place, checkins) ==
  IF Len(checkins) = 0 THEN place
  ELSE LET span == firstAndLast(checkins, 1, checkins[1].created_at, checkins[1].created_at)
           comments == checkinComments(checkins)
           stats == [ my_checkins_count |-> Len(checkins),
                      first_visit |-> FormatDate(span[1]),
                      last_visit |-> FormatDate(span[2]) ]
           noted == IF Len(comments) > 0 THEN [checkin_comments |-> comments] ELSE <<>>
       IN [place EXCEPT !.custom_fields = noted @@ stats @@ @]

\* parseJSON's first loop from position i: venueMap and venueCheckins
RECURSIVE groupCheckins(_, _, _, _, _)
groupCheckins(checkins, i, venueMap, venueCheckins, now) ==
  IF i > Len(checkins) THEN [venueMap |-> venueMap, venueCheckins |-> venueCheckins]
  ELSE LET checkin == checkins[i]
           venueID == checkin.venue.id
           seen == IF venueID \in DOMAIN venueCheckins THEN venueCheckins[venueID] ELSE <<>>
           place == convertFoursquareVenue(
                      [checkin.venue EXCEPT !.comments = checkin.comments], now)
       IN IF venueID = ""
            THEN groupCheckins(checkins, i + 1, venueMap, venueCheckins, now)
            ELSE groupCheckins(checkins, i + 1,
                   IF venueID \notin DOMAIN venueMap /\ place # NoPlace
                     THEN (venueID :> place) @@ venueMap
                     ELSE venueMap,
                   (venueID :> Append(seen, checkin)) @@ venueCheckins,
                   now)

\* FoursquareImporter.parseJSON: the places of the venues, in no particular order
parseJSON(checkins, now) ==
  LET grouped == groupCheckins(checkins, 1, <<>>, <<>>, now)
  IN { addCheckinMetadata(grouped.venueMap[v], grouped.venueCheckins[v]) :
         v \in DOMAIN grouped.venueMap }

CheckinVenues ==
  { FoursquareVenue("v1", "Cafe", "1 Main St", 407128000, 740060000, <<"Coffee Shop">>),
    FoursquareVenue("v2", "Bar", "2 Main St", 407228000, 740060000, <<"Bar">>),
    FoursquareVenue("v2", "", "2 Main St", 407228000, 740060000, <<"Bar">>),
    FoursquareVenue("", "Nowhere", "3 Main St", 407328000, 740060000, <<>>) }

Checkins ==
  { FoursquareCheckin(v, t, c) :
      v \in CheckinVenues, t \in {100, 90000, 200000}, c \in {"", "nice"} }

InitCheckins ==
  /\ db = EmptyDB
  /\ clock = FirstImport
  /\ edits = 0
  /\ last = [op |-> "none"]
  /\ mergeArgs = NoArgs
  /\ mergeOut = NoPlace
  /\ input \in UNION {[1..n -> Checkins] : n \in 1..MaxCheckins}
  /\ output = NoArgs

\* FoursquareImporter.ImportFromFile
ParseJSON ==
  /\ output = NoArgs
  /\ output' = [places |-> parseJSON(input, clock)]
  /\ UNCHANGED <<db, clock, edits, last, mergeArgs, mergeOut, input>>

NextCheckins == ParseJSON

SpecCheckins == InitCheckins /\ [][NextCheckins]_vars

(***************************************************************************)
(* Source auto-detection: the SourceManager's registry and DetectSource.   *)
(* A file path is the sequence of its characters.                          *)
(***************************************************************************)
MaxDetect == 4

\* NewSourceManager: the registered sources and their SupportedFormats
SupportedFormats ==
  [ apple |-> <<"kml", "kmz", "gpx">>,
    osm |-> <<"json", "csv">>,
    foursquare |-> <<"json">> ]

Sources == DOMAIN SupportedFormats

Extension ==
  [ kml |-> <<".", "k", "m", "l">>, kmz |-> <<".", "k", "m", "z">>,
    gpx |-> <<".", "g", "p", "x">>, json |-> <<".", "j", "s", "o", "n">>,
    csv |-> <<".", "c", "s", "v">> ]

hasExtension(filePath, ext) ==
  /\ Len(filePath) >= Len(ext)
  /\ SubSeq(filePath, Len(filePath) - Len(ext) + 1, Len(filePath)) = ext

matchesFormat(filePath, format) ==
  IF format \in {"kml", "kmz"}
    THEN hasExtension(filePath, Extension.kml) \/ hasExtension(filePath, Extension.kmz)
  ELSE IF format \in {"gpx", "json", "csv"}
    THEN hasExtension(filePath, Extension[format])
  ELSE FALSE

Handles(source, filePath) ==
  \E i \in 1..Len(SupportedFormats[source]) :
    matchesFormat(filePath, SupportedFormats[source][i])

\* DetectSource ranges over the map sm.sources, whose iteration order Go
\* leaves unspecified: any source that handles the file can be met first.
\* "none" is the nil result.
DetectSource(filePath) ==
  IF \E source \in Sources : Handles(source, filePath)
    THEN {source \in Sources : Handles(source, filePath)}
    ELSE {"none"}

FilePaths ==
  { <<"a">> \o Extension.json, <<"b">> \o Extension.json, <<"c", "d">> \o Extension.json,
    <<"a">> \o Extension.csv, <<"a">> \o Extension.kml, <<"a">> \o Extension.kmz,
    <<"a">> \o Extension.gpx, <<"a", ".", "J", "S", "O", "N">>,
    <<"a", ".", "g", "e", "o", "j", "s", "o", "n">>, <<"j", "s", "o", "n">>,
    <<"a", ".", "z", "i", "p">> }

InitDetect ==
  /\ db = EmptyDB
  /\ clock = 0
  /\ edits = 0
  /\ last = [op |-> "none"]
  /\ mergeArgs = NoArgs
  /\ mergeOut = NoPlace
  /\ input \in FilePaths
  /\ output = NoArgs

\* one more call of sm.DetectSource(filePath) on the same file
Detect ==
  /\ clock < MaxDetect
  /\ clock' = clock + 1
  /\ \E source \in DetectSource(input) :
       output' = [calls |-> (IF output = NoArgs THEN <<>> ELSE output.calls) \o <<source>>]
  /\ UNCHANGED <<db, edits, last, mergeArgs, mergeOut, input>>

NextDetect == Detect

SpecDetect == InitDetect /\ [][NextDetect]_vars

(***************************************************************************)
(* Tag management: placeli tags rename <old-tag> <new-tag> over a store of *)
(* tagged places, with storage writes that can fail.                       *)
(***************************************************************************)
\* models.Place HasTag, AddTag, RemoveTag
HasTag(place, tag) == \E i \in 1..Len(place.user_tags) : place.user_tags[i] = tag

AddTag(place, tag) ==
  IF HasTag(place, tag) THEN place
  ELSE [place EXCEPT !.user_tags = Append(@, tag)]

RemoveTag(place, tag) ==
  IF ~HasTag(place, tag) THEN place
  ELSE LET i == CHOOSE k \in 1..Len(place.user_tags) :
                   /\ place.user_tags[k] = tag
                   /\ \A j \in 1..(k - 1) : place.user_tags[j] # tag
       IN [place EXCEPT !.user_tags = SubSeq(@, 1, i - 1) \o SubSeq(@, i + 1, Len(@))]

\* DB.ListPlaces: every row, in the order of the query
ListPlaces(d) ==
  {order \in [1..Cardinality(DOMAIN d) -> DOMAIN d] :
     \A i, j \in DOMAIN order : order[i] = order[j] => i = j}

\* renameTag from position i of the listed places; failAt holds the ids whose
\* SavePlace returns an error
RECURSIVE renameTagFrom(_, _, _, _, _, _, _, _)
renameTagFrom(d, listed, order, i, oldTag, newTag, failAt, now) ==
  IF i > Len(order) THEN [db |-> d, count |-> 0, err |-> FALSE]
  ELSE LET place == listed[order[i]]
       IN IF HasTag(place, oldTag)
            THEN IF order[i] \in failAt
                   THEN [db |-> d, count |-> 0, err |-> TRUE]
                   ELSE LET rest == renameTagFrom(
                                      SavePlace(d, AddTag(RemoveTag(place, oldTag), newTag), now),
                                      listed, order, i + 1, oldTag, newTag, failAt, now)
                        IN [rest EXCEPT !.count = @ + 1]
            ELSE renameTagFrom(d, listed, order, i + 1, oldTag, newTag, failAt, now)

\* cmd/placeli renameTag
renameTag(d, order, oldTag, newTag, failAt, now) ==
  renameTagFrom(d, d, order, 1, oldTag, newTag, failAt, now)

TagNames == {"fav", "todo", "seen"}

TagLists == {<<>>, <<"fav">>, <<"todo">>, <<"fav", "todo">>, <<"todo", "fav">>}

Tagged(feature, tags) ==
  [convertTakeoutPlace(feature, FirstImport) EXCEPT !.user_tags = tags]

TagStores ==
  {SavePlace(SavePlace(EmptyDB, Tagged(CafeV1, a), FirstImport), Tagged(Kiosk, b), FirstImport) :
     a \in TagLists, b \in TagLists}

InitTags ==
  /\ db \in TagStores
  /\ clock = FirstImport
  /\ edits = 0
  /\ last = [op |-> "none"]
  /\ mergeArgs = NoArgs
  /\ mergeOut = NoPlace
  /\ input = NoArgs
  /\ output = NoArgs

\* tagsRenameCmd: both names non-empty and different, then renameTag
Rename(failures) ==
  /\ clock < MaxRuns
  /\ clock' = clock + 1
  /\ \E oldTag \in TagNames, newTag \in TagNames, order \in ListPlaces(db), failAt \in failures :
       /\ oldTag # newTag
       /\ LET out == renameTag(db, order, oldTag, newTag, failAt, clock + 1)
          IN /\ db' = out.db
             /\ last' = [ op |-> "rename", old |-> oldTag, new |-> newTag,
                          before |-> db, failed |-> out.err, count |-> out.count ]
  /\ UNCHANGED <<edits, mergeArgs, mergeOut, input, output>>

TagsRename == Rename({{}})

TagsRenameFailing == Rename((SUBSET DOMAIN db) \ {{}})

NextTags == TagsRename \/ TagsRenameFailing

SpecTags == InitTags /\ [][NextTags]_vars

(***************************************************************************)
(* Enrichment: mergeDetails lays the details fetched from the Places API   *)
(* over a stored place.  A rating is in tenths; absent opening hours are   *)
(* the nil pointer.  Reviews and photos are left out.                      *)
(***************************************************************************)
OpeningHours(present, weekdayText) == [present |-> present, weekday_text |-> weekdayText]

\* strings.Join(parts, ", ")
RECURSIVE Join(_)
Join(parts) ==
  IF parts = <<>> THEN ""
  ELSE IF Len(parts) = 1 THEN parts[1]
  ELSE parts[1] \o ", " \o Join(Tail(parts))

\* categories, then the types not yet among them, each string once
RECURSIVE Unique(_, _)
Unique(seq, seen) ==
  IF seq = <<>> THEN <<>>
  ELSE IF Head(seq) \in seen THEN Unique(Tail(seq), seen)
  ELSE <<Head(seq)>> \o Unique(Tail(seq), seen \cup {Head(seq)})

\* a fetched PlaceReview and the models.Review built from it
PlaceReview(authorName, text, authorURL) ==
  [author_name |-> authorName, text |-> text, author_url |-> authorURL]

ToReview(review) == [author |-> review.author_name, text |-> review.text]

RECURSIVE ToReviews(_)
ToReviews(reviews) ==
  IF reviews = <<>> THEN <<>>
  ELSE <<ToReview(Head(reviews))>> \o ToReviews(Tail(reviews))

EnrichmentOptions(fetchReviews) == [FetchReviews |-> fetchReviews]

\* mergeDetails written as if the fetched reviews always replaced the stored ones
mergeDetailsAlwaysReviews(place, details, opts) ==
  LET hoursText == Join(details.hours.weekday_text)
  IN [ place EXCEPT
         !.rating = IF details.rating > 0 /\ details.rating # @
                      THEN details.rating ELSE @,
         !.user_ratings = IF details.user_ratings > 0 /\ details.user_ratings # @
                            THEN details.user_ratings ELSE @,
         !.price_level = IF details.price_level > 0 /\ details.price_level # @
                           THEN details.price_level ELSE @,
         !.website = IF details.website # "" /\ details.website # @
                       THEN details.website ELSE @,
         !.phone = IF details.phone # "" /\ details.phone # @
                     THEN details.phone ELSE @,
         !.hours = IF /\ details.hours.present
                      /\ Len(details.hours.weekday_text) > 0
                      /\ hoursText # @
                     THEN hoursText ELSE @,
         !.reviews = IF Len(details.reviews) > 0
                       THEN ToReviews(details.reviews) ELSE @,
         !.categories = IF Len(details.types) > 0
                          THEN Unique(@ \o details.types, {})
                          ELSE @ ]

\* EnrichmentService.mergeDetails
mergeDetails(place, details, opts) ==
  LET hoursText == Join(details.hours.weekday_text)
  IN [ place EXCEPT
         !.reviews = IF opts.FetchReviews /\ Len(details.reviews) > 0
                       THEN ToReviews(details.reviews) ELSE @,
         !.rating = IF details.rating > 0 /\ details.rating # @
                      THEN details.rating ELSE @,
         !.user_ratings = IF details.user_ratings > 0 /\ details.user_ratings # @
                            THEN details.user_ratings ELSE @,
         !.price_level = IF details.price_level > 0 /\ details.price_level # @
                           THEN details.price_level ELSE @,
         !.website = IF details.website # "" /\ details.website # @
                       THEN details.website ELSE @,
         !.phone = IF details.phone # "" /\ details.phone # @
                     THEN details.phone ELSE @,
         !.hours = IF /\ details.hours.present
                      /\ Len(details.hours.weekday_text) > 0
                      /\ hoursText # @
                     THEN hoursText ELSE @,
         !.categories = IF Len(details.types) > 0
                          THEN Unique(@ \o details.types, {})
                          ELSE @ ]

EnrichPlaces ==
  [ rating : {0, 45}, user_ratings : {0, 1000}, price_level : {3},
    website : {"", "old.example"}, phone : {"555-1111"},
    hours : {"", "Mon 9-5, Tue 9-5", "Sat 10-2"},
    reviews : {<<>>, <<[author |-> "Original Review", text |-> "Original"]>>},
    categories : {<<>>, <<"food", "food">>, <<"food", "bar">>} ]

EnrichDetails ==
  [ rating : {0, 40, 45}, user_ratings : {0, 1000}, price_level : {0, 2},
    website : {"", "new.example"}, phone : {"", "555-1111"},
    hours : { OpeningHours(FALSE, <<>>), OpeningHours(TRUE, <<>>),
              OpeningHours(TRUE, <<"">>), OpeningHours(TRUE, <<"Mon 9-5", "Tue 9-5">>) },
    reviews : {<<>>, <<PlaceReview("New Review", "New", "https://example/a")>>},
    types : {<<>>, <<"cafe", "food", "cafe">>, <<"bar", "cafe">>} ]

InitEnrich ==
  /\ db = EmptyDB
  /\ clock = SecondImport
  /\ edits = 0
  /\ last = [op |-> "none"]
  /\ mergeArgs = NoArgs
  /\ mergeOut = NoPlace
  /\ input \in [place : EnrichPlaces, details : EnrichDetails,
                 opts : {EnrichmentOptions(f) : f \in BOOLEAN}]
  /\ output = NoArgs

\* enrichPlace: fetch the details, merge them into the place
MergeDetails ==
  /\ output = NoArgs
  /\ output' = [place |-> mergeDetails(input.place, input.details, input.opts)]
  /\ UNCHANGED <<db, clock, edits, last, mergeArgs, mergeOut, input>>

NextEnrich == MergeDetails

SpecEnrich == InitEnrich /\ [][NextEnrich]_vars

(***************************************************************************)
(* Vocabulary of the properties.                                           *)
(***************************************************************************)
\* a system field as the specification names it: a provider prefix, or one
\* of the five fixed names
ProviderPrefixes ==
  { <<"google_">>, <<"osm_">>, <<"apple_">>, <<"foursquare_">>, <<"gpx_">> }

SystemFieldNames ==
  {"google_maps_url", "imported_from", "import_date", "last_sync", "last_import"}

IsSystemKey(k) ==
  \/ \E prefix \in ProviderPrefixes : HasPrefix(k, prefix)
  \/ k \in SystemFieldNames

LastWasImport == last.op = "import"

LastWasSmart == LastWasImport /\ ~last.flags.noMerge

LastCounts == <<last.added, last.updated, last.skipped>>

\* the row carries the user data that `was` carried
KeepsUserData(row, was) ==
  /\ row.user_notes = was.user_notes
  /\ row.user_tags = was.user_tags
  /\ \A k \in DOMAIN was.custom_fields :
       ~IsSystemKey(k) =>
         /\ k \in DOMAIN row.custom_fields
         /\ row.custom_fields[k] = was.custom_fields[k]

\* the stored row is the logical place the feature describes
SameLogicalPlace(row, f) ==
  /\ row.name = f.name
  /\ row.address = f.address
  /\ row.lat = f.lat
  /\ row.lng = f.lng
  /\ row.place_id = f.place_id

MergeApplied == mergeOut # NoPlace

(***************************************************************************)
(* C1: after an import run of any mode, every record that was in storage   *)
(* before the run still has its user_notes, user_tags and non-system       *)
(* custom_fields entries.                                                  *)
(***************************************************************************)
C1_ImportKeepsUserData ==
  LastWasImport =>
    \A id \in DOMAIN last.before :
      /\ id \in DOMAIN db
      /\ KeepsUserData(db[id], last.before[id])

(***************************************************************************)
(* C2: a smart-mode run without --force leaves every record that was in    *)
(* storage before the run stored with identical content.                   *)
(***************************************************************************)
C2_SmartNoForceLeavesStore ==
  (LastWasSmart /\ ~last.flags.force) =>
    \A id \in DOMAIN last.before :
      /\ id \in DOMAIN db
      /\ db[id] = last.before[id]

(***************************************************************************)
(* C3: whatever the incoming record carries, the merged record has the     *)
(* existing record's user_notes and user_tags.                             *)
(***************************************************************************)
C3_MergeKeepsNotesAndTags ==
  MergeApplied =>
    /\ mergeOut.place.user_notes = mergeArgs.existing.user_notes
    /\ mergeOut.place.user_tags = mergeArgs.existing.user_tags

C3_Witness ==
  /\ MergeApplied
  /\ mergeArgs.existing.user_notes = "mine"
  /\ mergeArgs.imported.user_notes = "desc"
  /\ mergeOut.place.rating = mergeArgs.imported.rating
  /\ mergeOut.place.rating # mergeArgs.existing.rating

(***************************************************************************)
(* C4: in the merged record a non-system custom field found only in the    *)
(* existing record keeps the existing value, and a system custom field     *)
(* found in both records has the incoming value.                           *)
(***************************************************************************)
C4_MergeCustomFields ==
  MergeApplied =>
    LET was == mergeArgs.existing.custom_fields
        inc == mergeArgs.imported.custom_fields
        got == mergeOut.place.custom_fields
    IN /\ \A k \in (DOMAIN was) \ (DOMAIN inc) :
            ~IsSystemKey(k) => (k \in DOMAIN got /\ got[k] = was[k])
       /\ \A k \in (DOMAIN was) \cap (DOMAIN inc) :
            IsSystemKey(k) => (k \in DOMAIN got /\ got[k] = inc[k])

(***************************************************************************)
(* C5: the merged record has the existing record's id and created_at.      *)
(***************************************************************************)
C5_MergeKeepsIdentity ==
  MergeApplied =>
    /\ mergeOut.place.id = mergeArgs.existing.id
    /\ mergeOut.place.created_at = mergeArgs.existing.created_at

C5_Witness ==
  /\ MergeApplied
  /\ mergeArgs.imported.id # mergeArgs.existing.id
  /\ mergeArgs.imported.created_at # mergeArgs.existing.created_at
  /\ mergeOut.place.place_id = mergeArgs.imported.place_id

(***************************************************************************)
(* C6: the same logical place imported twice in smart mode without --force *)
(* into an empty store: the first run reports added=1, the second          *)
(* skipped=1 and added=0.                                                  *)
(***************************************************************************)
LastWasSmartCommittedSingle(force) ==
  /\ LastWasSmart
  /\ ~last.flags.dryRun
  /\ last.flags.force = force
  /\ Len(last.features) = 1

\* the store holds one record, and it is the place of the run's feature
StoreHoldsOnlyThatPlace ==
  /\ Cardinality(DOMAIN last.before) = 1
  /\ \A r \in Rows(last.before) : SameLogicalPlace(r, last.features[1])

C6_SamePlaceTwice ==
  LastWasSmartCommittedSingle(FALSE) =>
    /\ last.before = EmptyDB => LastCounts = <<1, 0, 0>>
    /\ StoreHoldsOnlyThatPlace => LastCounts = <<0, 0, 1>>

C6_Witness ==
  /\ LastWasSmartCommittedSingle(FALSE)
  /\ StoreHoldsOnlyThatPlace
  /\ \A r \in Rows(last.before) : r.rating # last.features[1].rating
  /\ db = last.before
  /\ LastCounts = <<0, 0, 1>>

(***************************************************************************)
(* C7: a place is imported, the user sets user_notes on it, and the place  *)
(* is imported again with --force and another rating: the run reports      *)
(* updated=1 and the stored record has the new rating and the user's       *)
(* notes.                                                                  *)
(***************************************************************************)
C7_ForceKeepsNotes ==
  (LastWasSmartCommittedSingle(TRUE) /\ StoreHoldsOnlyThatPlace) =>
    /\ LastCounts = <<0, 1, 0>>
    /\ \A id \in DOMAIN last.before :
         /\ id \in DOMAIN db
         /\ db[id].rating = last.features[1].rating
         /\ db[id].user_notes = last.before[id].user_notes

C7_Witness ==
  /\ LastWasSmartCommittedSingle(TRUE)
  /\ StoreHoldsOnlyThatPlace
  /\ \A id \in DOMAIN last.before :
       /\ last.before[id].user_notes = "mine"
       /\ last.before[id].rating # last.features[1].rating
       /\ last.features[1].description # "mine"
       /\ db[id].rating = last.features[1].rating
  /\ LastCounts = <<0, 1, 0>>

(***************************************************************************)
(* C8: a committed smart-mode run repeated on the same batch with the same *)
(* flags counts no record as added and leaves the set of stored ids as it  *)
(* was.                                                                    *)
(***************************************************************************)
C8_RerunIsIdempotent ==
  (LastWasSmart /\ ~last.flags.dryRun /\ last.repeat = "again") =>
    /\ last.added = 0
    /\ DOMAIN db = DOMAIN last.before

(***************************************************************************)
(* C9: a dry run writes nothing, and a dry run repeated on the same batch  *)
(* reports the same three counts.                                          *)
(***************************************************************************)
C9_DryRunChangesNothing ==
  (LastWasImport /\ last.flags.dryRun) =>
    /\ db = last.before
    /\ last.repeat = "again" => LastCounts = last.prior

C9_Witness ==
  /\ LastWasSmart
  /\ last.flags.dryRun
  /\ last.flags.force
  /\ last.repeat = "again"
  /\ db # EmptyDB
  /\ last.updated > 0
  /\ last.added > 0

(***************************************************************************)
(* C10: the counts a dry run reports are the counts the committed run with *)
(* the same mode and --force flag reports from the same storage state.     *)
(***************************************************************************)
C10_DryRunPredictsCommit ==
  (LastWasImport /\ last.repeat = "apply") => LastCounts = last.prior

(***************************************************************************)
(* C11: when the storage write of a record fails, the record is counted    *)
(* neither as added nor as updated, and the store and the added and        *)
(* updated counts of the run are those of the same run on the batch        *)
(* without the records whose write failed; simple mode counts each such    *)
(* record as skipped.                                                      *)
(***************************************************************************)
RECURSIVE DropAt(_, _, _)
DropAt(s, S, i) ==
  IF i > Len(s) THEN <<>>
  ELSE (IF i \in S THEN <<>> ELSE <<s[i]>>) \o DropAt(s, S, i + 1)

LastHadWriteErrors == LastWasImport /\ last.errors # {}

C11_WriteFailureSkipsOnlyThatRecord ==
  LastHadWriteErrors =>
    \E ref \in importFrom(last.before, DropAt(last.features, last.errors, 1),
                          last.flags.noMerge, last.flags.dryRun, last.flags.force,
                          last.time, {}) :
      /\ db = ref.db
      /\ last.added = ref.added
      /\ last.updated = ref.updated
      /\ last.skipped = ref.skipped
                          + (IF last.flags.noMerge THEN Cardinality(last.errors) ELSE 0)
      /\ last.added + last.updated <= Len(last.features) - Cardinality(last.errors)

C11_Witness ==
  /\ LastHadWriteErrors
  /\ LastWasSmart
  /\ last.flags.force
  /\ last.errors = {1}
  /\ Len(last.features) = 2
  /\ last.updated = 1
  /\ db # last.before

(***************************************************************************)
(* C12: in a committed smart-mode run, a record whose source_hash or       *)
(* non-empty provider_id equals that of an earlier record of the batch is  *)
(* not counted as added.                                                   *)
(***************************************************************************)
LastPlaces == parseListFile(last.features, last.time)

RepeatsEarlier(places, i, j) ==
  /\ i < j
  /\ \/ places[i].source_hash = places[j].source_hash
     \/ places[i].place_id = places[j].place_id /\ places[j].place_id # EmptyID

C12_LaterDuplicateNotAdded ==
  (LastWasSmart /\ ~last.flags.dryRun) =>
    \A j \in 1..Len(LastPlaces) :
      (\E i \in 1..Len(LastPlaces) : RepeatsEarlier(LastPlaces, i, j)) =>
        last.log[j] # "added"

(***************************************************************************)
(* C13: a committed simple-mode run without write errors counts every      *)
(* input record as added, and the number of stored records grows by the    *)
(* number of input records.                                                *)
(***************************************************************************)
C13_SimpleModeSavesEveryRecordAsNew ==
  (LastWasImport /\ last.flags.noMerge /\ ~last.flags.dryRun /\ last.errors = {}) =>
    /\ last.added = Len(LastPlaces)
    /\ Cardinality(DOMAIN db) = Cardinality(DOMAIN last.before) + Len(LastPlaces)

(***************************************************************************)
(* C14: a place at (0,0) is matched to a stored row, and a stored row at   *)
(* (0,0) to a place, only through an equal non-empty provider id or an     *)
(* equal source hash, never through the coordinates, whatever the names.   *)
(***************************************************************************)
AtOrigin(p) == p.lat = 0 /\ p.lng = 0

Answers(by) == output # NoArgs /\ output.by = by

SameProviderID(r, p) == r.place_id = p.place_id /\ p.place_id # EmptyID

SameSourceHash(r, p) == r.source_hash = p.source_hash /\ p.source_hash # EmptyHash

C14_OriginNeverMatchesByProximity ==
  (Answers("candidates") \/ Answers("import")) =>
    \A r \in output.rows :
      (AtOrigin(input) \/ AtOrigin(r)) =>
        \/ SameProviderID(r, input)
        \/ Answers("import") /\ SameSourceHash(r, input)

C14_Witness ==
  /\ Answers("candidates")
  /\ AtOrigin(input)
  /\ \E r \in Rows(db) : AtOrigin(r) /\ r.name = input.name /\ r.id # input.id
  /\ \E r \in Rows(db) : ~AtOrigin(r) /\ Abs(r.lat) < ProximityWindow
                                      /\ Abs(r.lng) < ProximityWindow
  /\ output.rows = {}

(***************************************************************************)
(* C15: a place with an empty provider id is matched to a stored row only  *)
(* through another criterion (source hash, coordinates, or name and        *)
(* address), never because the row's provider id is empty as well.         *)
(***************************************************************************)
Near(r, p) ==
  /\ Abs(r.lat - p.lat) < ProximityWindow
  /\ Abs(r.lng - p.lng) < ProximityWindow

C15_EmptyProviderIDNeverMatches ==
  (output # NoArgs /\ input.place_id = EmptyID) =>
    \A r \in output.rows :
      \/ Answers("candidates") /\ Near(r, input)
      \/ Answers("import") /\ (Near(r, input) \/ SameSourceHash(r, input))
      \/ Answers("sync") /\ r.name = input.name /\ r.address = input.address
      \/ Answers("imports") /\ r.source_hash = input.source_hash

C15_Witness ==
  /\ Answers("import")
  /\ input.place_id = EmptyID
  /\ \E r \in Rows(db) : r.place_id = EmptyID /\ r.id # input.id /\ r \notin output.rows
  /\ \E r \in Rows(db) : r.place_id = EmptyID /\ r \in output.rows

(***************************************************************************)
(* C16: no import, merge or edit changes the created_at of an id that is   *)
(* already stored.                                                         *)
(***************************************************************************)
C16_CreatedAtNeverChanges ==
  [][\A id \in (DOMAIN db) \cap (DOMAIN db') : db'[id].created_at = db[id].created_at]_vars

(***************************************************************************)
(* C17: the categories of a record an adapter emits hold no string twice.  *)
(***************************************************************************)
NoRepeats(seq) == \A i, j \in 1..Len(seq) : seq[i] = seq[j] => i = j

Emitted == IF output = NoArgs THEN {} ELSE {output.a, output.b} \ {NoPlace}

C17_CategoriesHoldNoDuplicates ==
  \A r \in Emitted : NoRepeats(r.categories)

(***************************************************************************)
(* C18: no adapter emits a record whose name and address are empty and     *)
(* whose coordinates are (0,0); a Takeout feature that carries neither a   *)
(* name, an address, coordinates nor a URL yields no record.               *)
(***************************************************************************)
HasNoIdentity(r) == r.name = "" /\ r.address = "" /\ r.lat = 0 /\ r.lng = 0

C18_EntryWithoutIdentityIsDropped ==
  /\ \A r \in Emitted : ~HasNoIdentity(r)
  /\ (output # NoArgs /\ input.source = "takeout" /\ input.a = Blank(NoURL)) =>
       output.a = NoPlace

(***************************************************************************)
(* C19: two records of one adapter that agree in name, address, latitude,  *)
(* longitude and provider id have the same source hash, and two that       *)
(* differ in exactly one of the five have different source hashes.         *)
(***************************************************************************)
IdentityFields == {"name", "address", "lat", "lng", "place_id"}

Differing(r, q) == {f \in IdentityFields : r[f] # q[f]}

BothEmitted == output # NoArgs /\ output.a # NoPlace /\ output.b # NoPlace

C19_HashFollowsIdentityFields ==
  BothEmitted =>
    /\ Differing(output.a, output.b) = {} =>
         output.a.source_hash = output.b.source_hash
    /\ Cardinality(Differing(output.a, output.b)) = 1 =>
         output.a.source_hash # output.b.source_hash

(***************************************************************************)
(* C20: the enrichment merge changes rating, rating count, price level,    *)
(* phone, website or hours only to a fetched value that is non-zero /      *)
(* non-empty and differs from the stored one; a fetched zero or empty      *)
(* value leaves the stored value.                                          *)
(***************************************************************************)
Enriched == output # NoArgs

\* the value fetched for a scalar field, and the zero / empty value of the field
Fetched(field) ==
  IF field = "hours" THEN Join(input.details.hours.weekday_text)
  ELSE input.details[field]

ZeroOf(field) ==
  IF field \in {"rating", "user_ratings", "price_level"} THEN 0 ELSE ""

ScalarFields == {"rating", "user_ratings", "price_level", "phone", "website", "hours"}

FieldFollowsRule(field) ==
  /\ output.place[field] # input.place[field] =>
       /\ Fetched(field) # ZeroOf(field)
       /\ output.place[field] = Fetched(field)
  /\ Fetched(field) = ZeroOf(field) => output.place[field] = input.place[field]

C20_EnrichmentNeverBlanks ==
  Enriched => \A field \in ScalarFields : FieldFollowsRule(field)

(***************************************************************************)
(* C21: the enrichment merge leaves as categories the stored categories in *)
(* their order, followed by the fetched types not among them in their      *)
(* order, and no string twice ([A,B] with [B,C] gives [A,B,C]).            *)
(***************************************************************************)
Range(seq) == {seq[i] : i \in 1..Len(seq)}

FirstAt(seq, x) == CHOOSE i \in 1..Len(seq) : seq[i] = x /\ \A j \in 1..(i - 1) : seq[j] # x

\* x stands before y in the union of the lists stored and fetched
UnionBefore(stored, fetched, x, y) ==
  IF x \in Range(stored)
    THEN y \in Range(stored) => FirstAt(stored, x) < FirstAt(stored, y)
    ELSE y \notin Range(stored) /\ FirstAt(fetched, x) < FirstAt(fetched, y)

IsOrderedUnion(result, stored, fetched) ==
  /\ NoRepeats(result)
  /\ Range(result) = Range(stored) \cup Range(fetched)
  /\ \A i, j \in 1..Len(result) :
       i < j => UnionBefore(stored, fetched, result[i], result[j])

C21_CategoriesAreOrderedUnion ==
  Enriched =>
    IsOrderedUnion(output.place.categories, input.place.categories, input.details.types)

(***************************************************************************)
(* C22: the enrichment merge replaces the reviews by the fetched ones only *)
(* when review refresh was requested; when it was not, the reviews after   *)
(* the merge are the reviews before it.                                    *)
(***************************************************************************)
C22_ReviewsOnlyOnRequest ==
  Enriched =>
    /\ ~input.opts.FetchReviews => output.place.reviews = input.place.reviews
    /\ output.place.reviews # input.place.reviews =>
         /\ input.opts.FetchReviews
         /\ output.place.reviews = ToReviews(input.details.reviews)

C22_Witness ==
  /\ Enriched
  /\ ~input.opts.FetchReviews
  /\ input.details.reviews # <<>>
  /\ input.place.reviews # <<>>
  /\ output.place.reviews = input.place.reviews
  /\ output.place.reviews # ToReviews(input.details.reviews)

(***************************************************************************)
(* C23: tags rename is atomic: when it has finished, either every place    *)
(* that carried the old tag carries the new tag in its stead, or, if it    *)
(* failed, no place in storage has changed.                                *)
(***************************************************************************)
LastWasRename == last.op = "rename"

RenamedEverywhere ==
  \A id \in DOMAIN last.before :
    HasTag(last.before[id], last.old) =>
      /\ id \in DOMAIN db
      /\ HasTag(db[id], last.new)
      /\ ~HasTag(db[id], last.old)

C23_TagsRenameIsAtomic ==
  LastWasRename =>
    IF last.failed THEN db = last.before ELSE RenamedEverywhere

(***************************************************************************)
(* C24: the Foursquare adapter collapses the check-ins that share a venue  *)
(* id into one record whose my_checkins_count is their number and whose    *)
(* first_visit and last_visit are the least and the greatest of their      *)
(* timestamps; a check-in without venue id contributes to no record.       *)
(***************************************************************************)
Parsed == output # NoArgs /\ "places" \in DOMAIN output

VenueIDs == {input[i].venue.id : i \in 1..Len(input)} \ {""}

VisitsOf(venueID) == {i \in 1..Len(input) : input[i].venue.id = venueID}

TimesOf(venueID) == {input[i].created_at : i \in VisitsOf(venueID)}

Least(set) == CHOOSE x \in set : \A y \in set : x <= y

Greatest(set) == CHOOSE x \in set : \A y \in set : x >= y

RecordsOf(venueID) == {p \in output.places : p.place_id = <<"4sq_", venueID>>}

C24_CheckinsCollapseByVenue ==
  Parsed =>
    /\ \A v \in VenueIDs :
         /\ Cardinality(RecordsOf(v)) = 1
         /\ \A p \in RecordsOf(v) :
              /\ p.custom_fields.my_checkins_count = Cardinality(VisitsOf(v))
              /\ p.custom_fields.first_visit = FormatDate(Least(TimesOf(v)))
              /\ p.custom_fields.last_visit = FormatDate(Greatest(TimesOf(v)))
    /\ RecordsOf("") = {}
    /\ Cardinality(output.places) = Cardinality(VenueIDs)

(***************************************************************************)
(* C25: in smart mode every input record gets exactly one outcome: no      *)
(* match, it is saved as it is and counted added; a match without force,   *)
(* it is counted skipped and nothing is written; a match with force, the   *)
(* merge result is saved and it is counted updated.  So, absent storage    *)
(* errors, added + updated + skipped is the number of input records.       *)
(***************************************************************************)
SmartRun == LastWasImport /\ ~last.flags.noMerge /\ last.errors = {}

Written(d, place) == IF last.flags.dryRun THEN d ELSE SavePlace(d, place, last.time)

\* the stores the rule allows after a record with outcome line met store d
After(d, place, line) ==
  LET found == findExistingPlace(d, place)
  IN IF line = "added" THEN (IF found = {} THEN {Written(d, place)} ELSE {})
     ELSE IF line = "skipped" THEN (IF found # {} /\ ~last.flags.force THEN {d} ELSE {})
     ELSE IF line = "updated"
       THEN (IF last.flags.force
               THEN {Written(d, mergeImportedPlace(existing, place, last.time)) :
                       existing \in found}
               ELSE {})
     ELSE {}

RECURSIVE AfterAll(_, _)
AfterAll(stores, i) ==
  IF i > Len(LastPlaces) THEN stores
  ELSE AfterAll(UNION {After(d, LastPlaces[i], last.log[i]) : d \in stores}, i + 1)

Lines(line) == Cardinality({i \in 1..Len(last.log) : last.log[i] = line})

C25_SmartModeOneOutcomePerRecord ==
  SmartRun =>
    /\ Len(last.log) = Len(LastPlaces)
    /\ last.added = Lines("added")
    /\ last.updated = Lines("updated")
    /\ last.skipped = Lines("skipped")
    /\ last.added + last.updated + last.skipped = Len(LastPlaces)
    /\ db \in AfterAll({last.before}, 1)

C25_Witness ==
  /\ SmartRun
  /\ ~last.flags.dryRun
  /\ last.flags.force
  /\ last.log = <<"added", "updated">>
  /\ db # last.before

(***************************************************************************)
(* C26: when the incoming record's source_hash is non-empty and a stored   *)
(* record has exactly that source_hash, findExistingPlace returns a record *)
(* with that hash, whatever other stored records match the incoming one by *)
(* provider id or by proximity.                                            *)
(***************************************************************************)
HashKnown == input.source_hash # EmptyHash /\ \E r \in Rows(db) : SameSourceHash(r, input)

C26_SourceHashMatchWins ==
  (Answers("import") /\ HashKnown) =>
    /\ output.rows # {}
    /\ \A r \in output.rows : r \in Rows(db) /\ r.source_hash = input.source_hash

C26_Witness ==
  /\ Answers("import")
  /\ HashKnown
  /\ \E r \in FindDuplicateCandidates(db, input) :
       /\ r.source_hash # input.source_hash
       /\ r \notin output.rows
  /\ output.rows # {}

(***************************************************************************)
(* C27: the candidate query returns a stored record as a proximity match   *)
(* exactly when its latitude and its longitude are each within the window  *)
(* of the incoming record's and neither record lies at (0,0); a record     *)
(* with only one coordinate 0 is still eligible.                           *)
(***************************************************************************)
ProximityMatch(r, p) == Near(r, p) /\ ~AtOrigin(r) /\ ~AtOrigin(p)

C27_ProximityMatchExactly ==
  Answers("candidates") =>
    \A r \in Rows(db) :
      r \in output.rows <=> (SameProviderID(r, input) \/ ProximityMatch(r, input))

(***************************************************************************)
(* C28: after any sequence of imports and merges of adapter-produced       *)
(* records, every stored record's id is generateID of its own provider id. *)
(***************************************************************************)
C28_IdDerivedFromProviderID ==
  \A id \in DOMAIN db : db[id].id = generateID(db[id].place_id)

(***************************************************************************)
(* C29: starting from the empty store, after any sequence of committed     *)
(* smart-mode imports no two distinct stored records have the same         *)
(* non-empty provider id.                                                  *)
(***************************************************************************)
C29_ProviderIDUniqueInStore ==
  \A a, b \in DOMAIN db :
    (db[a].place_id = db[b].place_id /\ db[a].place_id # EmptyID) => a = b

(***************************************************************************)
(* C30: source auto-detection is deterministic: for a given file path and  *)
(* the registered adapters DetectSource selects the same adapter on every  *)
(* call, also for an extension that several adapters support.              *)
(***************************************************************************)
C30_DetectSourceIsDeterministic ==
  (output # NoArgs /\ "calls" \in DOMAIN output) =>
    \A i, j \in 1..Len(output.calls) : output.calls[i] = output.calls[j]

====
